---- MODULE Spec2Model ----
(***************************************************************************)
(* Model of go-zcashaddress: the CompactSize varint codec                  *)
(* (internal/compactsize), the Unified Address codec (unifiedaddress) and  *)
(* the address dispatcher (zcashaddress.DecodeAddress).                    *)
(*                                                                         *)
(* A uint64 is a tuple of four 16-bit limbs, most significant first:       *)
(* <<w3, w2, w1, w0>> stands for w3*2^48 + w2*2^32 + w1*2^16 + w0.  A byte  *)
(* is a number in 0..255, a byte slice a sequence of bytes; the nil slice  *)
(* and the nil pointer to a fixed-size array are the empty sequence.       *)
(* An error is its message; "nil" is the nil error.                        *)
(***************************************************************************)
EXTENDS Integers, Sequences, FiniteSets, TLC

VARIABLES call, prev

vars == <<call, prev>>

NoErr == "nil"

\* ------------------------------------------------------------------------
\* uint64 arithmetic on limbs

U64FromInt(i) == <<0, 0, i \div 65536, i % 65536>>

U64Less(a, b) ==
    \E k \in 1..4 : a[k] < b[k] /\ \A j \in 1..(k - 1) : a[j] = b[j]

U64LessEq(a, b) == a = b \/ U64Less(a, b)

MaxUint16 == <<0, 0, 0, 65535>>

MaxUint32 == <<0, 0, 65535, 65535>>

\* ------------------------------------------------------------------------
\* internal/compactsize

maxCompactSize == 33554432

\* binary.Write(buf, binary.LittleEndian, n): n is given as its limbs, most
\* significant first (1 limb: uint16, 2 limbs: uint32, 4 limbs: uint64).
RECURSIVE binaryWriteBigEndian(_)
binaryWriteBigEndian(limbs) ==
    IF limbs = <<>> THEN <<>>
    ELSE <<limbs[1] \div 256, limbs[1] % 256>> \o binaryWriteBigEndian(SubSeq(limbs, 2, Len(limbs)))

RECURSIVE binaryWrite(_)
binaryWrite(limbs) ==
    IF limbs = <<>> THEN <<>>
    ELSE LET w == limbs[Len(limbs)]
         IN  <<w % 256, w \div 256>> \o binaryWrite(SubSeq(limbs, 1, Len(limbs) - 1))

WriteCompactSize(n, allowOutOfRange) ==
    IF ~allowOutOfRange /\ U64Less(U64FromInt(maxCompactSize), n)
    THEN [bytes |-> <<>>, err |-> "number exceeds maximum compact size"]
    ELSE IF U64Less(n, U64FromInt(253))
    THEN [bytes |-> <<n[4] % 256>>, err |-> NoErr]
    ELSE IF U64LessEq(n, MaxUint16)
    THEN [bytes |-> <<253>> \o binaryWrite(<<n[4]>>), err |-> NoErr]
    ELSE IF U64LessEq(n, MaxUint32)
    THEN [bytes |-> <<254>> \o binaryWrite(<<n[3], n[4]>>), err |-> NoErr]
    ELSE [bytes |-> <<255>> \o binaryWrite(n), err |-> NoErr]

binaryReadUint16(b) == b[1] + 256 * b[2]

binaryReadUint32WordSwapped(b) == <<b[1] + 256 * b[2], b[3] + 256 * b[4]>>

binaryReadUint32(b) ==
    <<b[3] + 256 * b[4], b[1] + 256 * b[2]>>

binaryReadUint64(b) ==
    <<b[7] + 256 * b[8], b[5] + 256 * b[6], b[3] + 256 * b[4], b[1] + 256 * b[2]>>

SliceFrom(s, k) == SubSeq(s, k + 1, Len(s))

ParseCompactSizeValue(rest) ==
    LET b == rest[1]
    IN  IF b = 253 THEN
            IF Len(rest) < 3
            THEN [n |-> U64FromInt(0), rest |-> <<>>, err |-> "invalid compact size encoding"]
            ELSE [n |-> <<0, 0, 0, binaryReadUint16(SliceFrom(rest, 1))>>,
                  rest |-> SliceFrom(rest, 3), err |-> NoErr]
        ELSE IF b = 254 THEN
            IF Len(rest) < 5
            THEN [n |-> U64FromInt(0), rest |-> <<>>, err |-> "invalid compact size encoding"]
            ELSE [n |-> <<0, 0>> \o binaryReadUint32(SliceFrom(rest, 1)),
                  rest |-> SliceFrom(rest, 5), err |-> NoErr]
        ELSE IF b = 255 THEN
            IF Len(rest) < 9
            THEN [n |-> U64FromInt(0), rest |-> <<>>, err |-> "invalid compact size encoding"]
            ELSE [n |-> binaryReadUint64(SliceFrom(rest, 1)),
                  rest |-> SliceFrom(rest, 9), err |-> NoErr]
        ELSE [n |-> U64FromInt(b), rest |-> SliceFrom(rest, 1), err |-> NoErr]

ParseCompactSizeNoCeiling(rest, allowOutOfRange) ==
    IF Len(rest) < 1
    THEN [n |-> U64FromInt(0), rest |-> <<>>, err |-> "invalid compact size encoding"]
    ELSE ParseCompactSizeValue(rest)

ParseCompactSize(rest, allowOutOfRange) ==
    IF Len(rest) < 1
    THEN [n |-> U64FromInt(0), rest |-> <<>>, err |-> "invalid compact size encoding"]
    ELSE LET r == ParseCompactSizeValue(rest)
         IN  IF r.err # NoErr THEN r
             ELSE IF ~allowOutOfRange /\ U64Less(U64FromInt(maxCompactSize), r.n)
             THEN [n |-> U64FromInt(0), rest |-> <<>>,
                   err |-> "number exceeds maximum compact size"]
             ELSE r

\* ------------------------------------------------------------------------
\* The varint codec's calls: a call is drawn with its inputs, then returns.

\* The limb values a varint input is built from: both sides of every width
\* threshold (253, 2^16, 2^32) and of the range ceiling 0x2000000.
LowLimbs == {0, 1, 252, 253, 254, 255, 256, 300, 65534, 65535}

MidLimbs == {0, 1, 512, 513, 65535}

HighLimbs == {0, 1, 32768, 65535}

VarintInputs == HighLimbs \X {0, 1, 65535} \X MidLimbs \X LowLimbs

MaxTrailing == 1

TrailingBytes == UNION {[1..k -> {1, 253}] : k \in 0..MaxTrailing}

\* Byte strings handed to ParseCompactSize that no WriteCompactSize call
\* produced (truncated and non-canonical encodings, the vectors of
\* TestCompactSize), each with the value it carries when it is well formed.
RawEncodings ==
    {[bytes |-> <<>>, wellFormed |-> FALSE, value |-> <<0, 0, 0, 0>>],
     [bytes |-> <<253>>, wellFormed |-> FALSE, value |-> <<0, 0, 0, 0>>],
     [bytes |-> <<253, 1>>, wellFormed |-> FALSE, value |-> <<0, 0, 0, 0>>],
     [bytes |-> <<254, 1, 0, 0>>, wellFormed |-> FALSE, value |-> <<0, 0, 0, 0>>],
     [bytes |-> <<255, 0, 0, 0, 0, 1, 0, 0>>, wellFormed |-> FALSE, value |-> <<0, 0, 0, 0>>],
     [bytes |-> <<253, 1, 0>>, wellFormed |-> TRUE, value |-> <<0, 0, 0, 1>>],
     [bytes |-> <<253, 44, 1>>, wellFormed |-> TRUE, value |-> <<0, 0, 0, 300>>],
     [bytes |-> <<254, 0, 0, 0, 2>>, wellFormed |-> TRUE, value |-> <<0, 0, 512, 0>>],
     [bytes |-> <<254, 1, 0, 0, 2>>, wellFormed |-> TRUE, value |-> <<0, 0, 512, 1>>],
     [bytes |-> <<255, 0, 0, 0, 0, 1, 0, 0, 0>>, wellFormed |-> TRUE, value |-> <<0, 1, 0, 0>>],
     [bytes |-> <<255, 255, 255, 255, 255, 255, 255, 255, 255>>, wellFormed |-> TRUE,
      value |-> <<65535, 65535, 65535, 65535>>],
     [bytes |-> <<255, 1, 0, 0, 2, 0, 0, 0, 0>>, wellFormed |-> TRUE, value |-> <<0, 0, 512, 1>>],
     [bytes |-> <<255, 0, 0, 0, 2, 0, 0, 0, 0, 7>>, wellFormed |-> TRUE, value |-> <<0, 0, 512, 0>>]}

NoCall == [fn |-> "none", stage |-> "return"]

InitCompactSize ==
    /\ prev = NoCall
    /\ \/ \E n \in VarintInputs, allow \in BOOLEAN :
            call = [fn |-> "WriteCompactSize", stage |-> "call", n |-> n, allow |-> allow]
       \/ \E e \in RawEncodings, allow \in BOOLEAN :
            call = [fn |-> "ParseCompactSize", stage |-> "call", rest |-> e.bytes,
                    allow |-> allow, raw |-> e]

Write ==
    /\ call.fn = "WriteCompactSize"
    /\ call.stage = "call"
    /\ call' = [fn |-> "WriteCompactSize", stage |-> "return", n |-> call.n,
                allow |-> call.allow, out |-> WriteCompactSize(call.n, call.allow)]
    /\ UNCHANGED prev

\* Parse what the last WriteCompactSize call returned, followed by trailing bytes.
ParseWritten ==
    /\ call.fn = "WriteCompactSize"
    /\ call.stage = "return"
    /\ call.out.err = NoErr
    /\ \E t \in TrailingBytes, allow \in BOOLEAN :
        /\ call' = [fn |-> "ParseCompactSize", stage |-> "return",
                    rest |-> call.out.bytes \o t, trailing |-> t, allow |-> allow,
                    out |-> ParseCompactSize(call.out.bytes \o t, allow)]
        /\ prev' = call

ParseRaw ==
    /\ call.fn = "ParseCompactSize"
    /\ call.stage = "call"
    /\ call' = [fn |-> "ParseCompactSize", stage |-> "return", rest |-> call.rest,
                allow |-> call.allow, raw |-> call.raw,
                out |-> ParseCompactSize(call.rest, call.allow)]
    /\ UNCHANGED prev

NextCompactSize == Write \/ ParseWritten \/ ParseRaw

SpecCompactSize == InitCompactSize /\ [][NextCompactSize]_vars

\* ------------------------------------------------------------------------
\* External collaborators of the Unified Address codec

\* f4jumble.F4Jumble / F4JumbleInv: a length-preserving permutation of the
\* byte strings of 48 to 4194368 bytes and its inverse; other lengths are
\* rejected.  The permutation itself is BLAKE2b-based; it stands here as
\* "rotate left by one byte, add one to every byte".
F4JumbleLengthOk(n) == n >= 48 /\ n <= 4194368

F4Jumble(m) ==
    IF ~F4JumbleLengthOk(Len(m))
    THEN [bytes |-> <<>>, err |-> "f4jumble: invalid message length"]
    ELSE [bytes |-> [i \in 1..Len(m) |-> (m[(i % Len(m)) + 1] + 1) % 256], err |-> NoErr]

F4JumbleInv(m) ==
    IF ~F4JumbleLengthOk(Len(m))
    THEN [bytes |-> <<>>, err |-> "f4jumble: invalid message length"]
    ELSE [bytes |-> [i \in 1..Len(m) |-> (m[((i + Len(m) - 2) % Len(m)) + 1] + 255) % 256],
          err |-> NoErr]

\* bech32.ConvertBits: regroup a sequence of fromBits-wide values into
\* toBits-wide values, most significant bit first.
SymbolAt(data, i) == IF i > Len(data) THEN 0 ELSE data[i]

\* The count bits that start at bit k of the stream of width-bit symbols
\* (count <= 8 and width >= 5, so they lie within three symbols).
BitGroup(data, width, k, count) ==
    LET i == k \div width
        window == SymbolAt(data, i + 1) * (2 ^ (2 * width))
                  + SymbolAt(data, i + 2) * (2 ^ width) + SymbolAt(data, i + 3)
    IN  (window \div (2 ^ (3 * width - (k % width) - count))) % (2 ^ count)

ConvertBits(data, fromBits, toBits, pad) ==
    LET total == Len(data) * fromBits
        full == total \div toBits
        filledBits == total % toBits
        regrouped == [j \in 1..full |-> BitGroup(data, fromBits, (j - 1) * toBits, toBits)]
        nextByte == BitGroup(data, fromBits, full * toBits, filledBits)
    IN  IF pad /\ filledBits > 0
        THEN [bytes |-> Append(regrouped, nextByte * (2 ^ (toBits - filledBits))), err |-> NoErr]
        ELSE IF filledBits > 0 /\ (filledBits > 4 \/ nextByte # 0)
        THEN [bytes |-> <<>>, err |-> "invalid incomplete group"]
        ELSE [bytes |-> regrouped, err |-> NoErr]

\* A string is what the text decoders make of it: its base58check reading
\* (b58) and its bech32 reading (b32), each of which may be a failure.
NoBase58 == [ok |-> FALSE, version |-> 0, payload |-> <<>>]

NoBech32 == [ok |-> FALSE, hrp |-> <<>>, data |-> <<>>, version |-> "unknown"]

EmptyString == [b58 |-> NoBase58, b32 |-> NoBech32]

\* bech32.EncodeM(hrp, data)
EncodeM(hrp, data) ==
    [str |-> [b58 |-> NoBase58,
              b32 |-> [ok |-> TRUE, hrp |-> hrp, data |-> data, version |-> "bech32m"]],
     err |-> NoErr]

\* bech32.DecodeNoLimitWithVersion(encoded)
DecodeNoLimitWithVersion(encoded) ==
    IF encoded.b32.ok
    THEN [hrp |-> encoded.b32.hrp, data |-> encoded.b32.data,
          version |-> encoded.b32.version, err |-> NoErr]
    ELSE [hrp |-> <<>>, data |-> <<>>, version |-> "unknown", err |-> "invalid bech32 string"]

\* ------------------------------------------------------------------------
\* unifiedaddress

P2PKHItem == <<0, 0, 0, 0>>

P2SHItem == <<0, 0, 0, 1>>

SaplingItem == <<0, 0, 0, 2>>

OrchardItem == <<0, 0, 0, 3>>

NoPreviousItem == <<0, 0, 65535, 65535>>

getExpectedLength(itemType) ==
    IF itemType = P2PKHItem THEN 20
    ELSE IF itemType = P2SHItem THEN 20
    ELSE IF itemType = SaplingItem THEN 43
    ELSE IF itemType = OrchardItem THEN 43
    ELSE 0

getItemName(itemType) ==
    IF itemType \in {P2PKHItem, P2SHItem} THEN "transparent"
    ELSE IF itemType = SaplingItem THEN "sapling"
    ELSE IF itemType = OrchardItem THEN "orchard"
    ELSE "unknown"

tlv(typecode, value) ==
    LET start == WriteCompactSize(typecode, TRUE)
        st == WriteCompactSize(U64FromInt(Len(value)), TRUE)
    IN  IF start.err # NoErr THEN [bytes |-> <<>>, err |-> start.err]
        ELSE IF st.err # NoErr THEN [bytes |-> <<>>, err |-> start.err]
        ELSE [bytes |-> start.bytes \o st.bytes \o value, err |-> NoErr]

padding(hrp) ==
    LET padLength == IF 16 - Len(hrp) < 0 THEN 0 ELSE 16 - Len(hrp)
    IN  hrp \o [i \in 1..padLength |-> 0]

\* The items EncodeUnified appends to encodedItems, in order, each with its
\* typecode; order is the order in which range visits the keys of addr.Unknown.
EncodedItems(addr, order) ==
    LET known == <<[t |-> P2PKHItem, v |-> addr.P2pkh], [t |-> P2SHItem, v |-> addr.P2sh],
                   [t |-> SaplingItem, v |-> addr.Sapling], [t |-> OrchardItem, v |-> addr.Orchard]>>
        unknown == [i \in 1..Len(order) |-> [t |-> order[i], v |-> addr.Unknown[order[i]]]]
        present == SelectSeq(known \o unknown, LAMBDA e : e.v # <<>>)
    IN  [i \in 1..Len(present) |-> [typecode |-> present[i].t, tlv |-> tlv(present[i].t, present[i].v)]]

RECURSIVE Concat(_)
Concat(ss) == IF ss = <<>> THEN <<>> ELSE Head(ss) \o Concat(Tail(ss))

EncodeUnifiedEitherTransparent(addr, hrp, order) ==
    IF addr.P2pkh # <<>> \/ addr.P2sh # <<>>
    THEN [str |-> EmptyString, err |-> "both P2PKH and P2SH items found in unified address",
          emitted |-> <<>>]
    ELSE
    LET items == EncodedItems(addr, order)
        emitted == [i \in 1..Len(items) |-> items[i].typecode]
        failed == {i \in 1..Len(items) : items[i].tlv.err # NoErr}
        rBytes == Concat([i \in 1..Len(items) |-> items[i].tlv.bytes] \o <<padding(hrp)>>)
        jumbled == F4Jumble(rBytes)
        converted == ConvertBits(jumbled.bytes, 8, 5, TRUE)
        encoded == EncodeM(hrp, converted.bytes)
    IN  IF failed # {}
        THEN [str |-> EmptyString, err |-> items[CHOOSE i \in failed : \A j \in failed : i <= j].tlv.err,
              emitted |-> emitted]
        ELSE IF jumbled.err # NoErr
        THEN [str |-> EmptyString, err |-> jumbled.err, emitted |-> emitted]
        ELSE IF converted.err # NoErr
        THEN [str |-> EmptyString, err |-> converted.err, emitted |-> emitted]
        ELSE IF encoded.err # NoErr
        THEN [str |-> EmptyString, err |-> encoded.err, emitted |-> emitted]
        ELSE [str |-> encoded.str, err |-> NoErr, emitted |-> emitted]

EncodeUnified(addr, hrp, order) ==
    IF addr.P2pkh # <<>> /\ addr.P2sh # <<>>
    THEN [str |-> EmptyString, err |-> "both P2PKH and P2SH items found in unified address",
          emitted |-> <<>>]
    ELSE
    LET items == EncodedItems(addr, order)
        emitted == [i \in 1..Len(items) |-> items[i].typecode]
        failed == {i \in 1..Len(items) : items[i].tlv.err # NoErr}
        rBytes == Concat([i \in 1..Len(items) |-> items[i].tlv.bytes] \o <<padding(hrp)>>)
        jumbled == F4Jumble(rBytes)
        converted == ConvertBits(jumbled.bytes, 8, 5, TRUE)
        encoded == EncodeM(hrp, converted.bytes)
    IN  IF failed # {}
        THEN [str |-> EmptyString, err |-> items[CHOOSE i \in failed : \A j \in failed : i <= j].tlv.err,
              emitted |-> emitted]
        ELSE IF jumbled.err # NoErr
        THEN [str |-> EmptyString, err |-> jumbled.err, emitted |-> emitted]
        ELSE IF converted.err # NoErr
        THEN [str |-> EmptyString, err |-> converted.err, emitted |-> emitted]
        ELSE IF encoded.err # NoErr
        THEN [str |-> EmptyString, err |-> encoded.err, emitted |-> emitted]
        ELSE [str |-> encoded.str, err |-> NoErr, emitted |-> emitted]

NilAddress == [P2pkh |-> <<>>, P2sh |-> <<>>, Sapling |-> <<>>, Orchard |-> <<>>, Unknown |-> <<>>]

DecodeFailed(msg) == [kind |-> "error", addr |-> NilAddress, err |-> msg]

\* int(itemLen) on a 64-bit platform is negative when bit 63 of itemLen is set
IntIsNegative(n) == n[1] >= 32768

\* The receiver loop of DecodeUnified: rest is the unparsed body, receivers
\* the map filled so far, prevType the previous typecode.
RECURSIVE DecodeItems(_, _, _)
DecodeItems(rest, receivers, prevType) ==
    IF Len(rest) = 0 THEN [kind |-> "ok", receivers |-> receivers]
    ELSE
    LET t == ParseCompactSize(rest, TRUE)
        l == ParseCompactSize(t.rest, TRUE)
        itemType == t.n
        itemLen == l.n
        remaining == l.rest
        expectedLen == getExpectedLength(itemType)
        n == itemLen[3] * 65536 + itemLen[4]
    IN  IF t.err # NoErr THEN [kind |-> "error", err |-> "error decoding item type"]
        ELSE IF l.err # NoErr THEN [kind |-> "error", err |-> "error decoding item data"]
        ELSE IF expectedLen > 0 /\ itemLen # U64FromInt(expectedLen)
        THEN [kind |-> "error", err |-> "incorrect item length for typecode"]
        ELSE IF ~IntIsNegative(itemLen) /\ U64Less(U64FromInt(Len(remaining)), itemLen)
        THEN [kind |-> "error", err |-> "insufficient data for receiver with typecode"]
        ELSE IF U64Less(U64FromInt(Len(remaining)), itemLen)
        THEN [kind |-> "panic", err |-> "slice bounds out of range"]
        ELSE IF itemType \in DOMAIN receivers
        THEN [kind |-> "error", err |-> "duplicate " \o getItemName(itemType) \o " item detected"]
        ELSE IF prevType # NoPreviousItem /\ U64LessEq(itemType, prevType)
        THEN [kind |-> "error", err |-> "items out of order"]
        ELSE DecodeItems(SliceFrom(remaining, n),
                         [k \in DOMAIN receivers \cup {itemType} |->
                             IF k = itemType THEN SubSeq(remaining, 1, n) ELSE receivers[k]],
                         itemType)

Receiver(receivers, itemType) ==
    IF itemType \in DOMAIN receivers THEN receivers[itemType] ELSE <<>>

KnownItems == {P2PKHItem, P2SHItem, SaplingItem, OrchardItem}

DecodeUnified(encoded, expectedHrp) ==
    LET d == DecodeNoLimitWithVersion(encoded)
        convertedBits == ConvertBits(d.data, 5, 8, FALSE)
        decoded == F4JumbleInv(convertedBits.bytes)
        size == Len(decoded.bytes)
        suffix == SubSeq(decoded.bytes, size - 15, size)
        body == SubSeq(decoded.bytes, 1, size - 16)
        \* r is what the receiver loop made of the body
        Bucket(r) ==
            IF r.kind = "panic"
            THEN [kind |-> "panic", addr |-> NilAddress, err |-> r.err]
            ELSE IF r.kind = "error"
            THEN [kind |-> "error", addr |-> NilAddress, err |-> r.err]
            ELSE [kind |-> "ok",
                  addr |-> [P2pkh |-> Receiver(r.receivers, P2PKHItem),
                            P2sh |-> Receiver(r.receivers, P2SHItem),
                            Sapling |-> Receiver(r.receivers, SaplingItem),
                            Orchard |-> Receiver(r.receivers, OrchardItem),
                            Unknown |-> [k \in DOMAIN r.receivers \ KnownItems |-> r.receivers[k]]],
                  err |-> NoErr]
    IN  IF d.version # "bech32m"
        THEN DecodeFailed("unified addresses must be encoded with bech32m")
        ELSE IF d.hrp # expectedHrp \/ d.err # NoErr
        THEN DecodeFailed("invalid HRP or encoding")
        ELSE IF Len(d.data) < 48
        THEN DecodeFailed("invalid encoded data length")
        ELSE IF convertedBits.err # NoErr THEN DecodeFailed(convertedBits.err)
        ELSE IF decoded.err # NoErr THEN DecodeFailed(decoded.err)
        ELSE IF suffix # padding(expectedHrp)
        THEN DecodeFailed("invalid trailing padding")
        ELSE Bucket(DecodeItems(body, <<>>, NoPreviousItem))

\* ------------------------------------------------------------------------
\* The Unified Address codec's calls

Bytes(k, base) == [i \in 1..k |-> (base + i) % 256]

\* "u", and a prefix of 17 bytes
Hrps == {<<117>>, <<117>> \o Bytes(16, 96)}

MaxUnknown == 2

UnknownTypecodes == {<<0, 0, 0, 4>>, NoPreviousItem, <<0, 1, 0, 0>>}

UnknownPayloads == {<<>>, <<9>>, Bytes(32, 200)}

UnknownMaps ==
    UNION {[S -> UnknownPayloads] :
              S \in {T \in SUBSET UnknownTypecodes : Cardinality(T) <= MaxUnknown}}

Addresses ==
    [P2pkh : {<<>>, Bytes(20, 16)}, P2sh : {<<>>, Bytes(20, 48)},
     Sapling : {<<>>, Bytes(43, 96)}, Orchard : {<<>>, Bytes(43, 160)},
     Unknown : UnknownMaps]

\* The orders in which a range loop may visit the keys of a map
IterationOrders(m) ==
    {o \in [1..Cardinality(DOMAIN m) -> DOMAIN m] :
        \A i, j \in DOMAIN o : i # j => o[i] # o[j]}

\* Items of a hand-made body: a typecode, the length the item declares and
\* the payload bytes that follow it.
WellFormedItems ==
    {[type |-> P2PKHItem, len |-> U64FromInt(20), payload |-> Bytes(20, 16)],
     [type |-> P2SHItem, len |-> U64FromInt(20), payload |-> Bytes(20, 48)],
     [type |-> SaplingItem, len |-> U64FromInt(43), payload |-> Bytes(43, 96)],
     [type |-> OrchardItem, len |-> U64FromInt(43), payload |-> Bytes(43, 160)]}
    \cup {[type |-> t, len |-> U64FromInt(32), payload |-> Bytes(32, 200)] : t \in UnknownTypecodes}

MisdeclaredItems ==
    {[type |-> t, len |-> l, payload |-> Bytes(32, 200)] :
        t \in {<<0, 0, 0, 4>>}, l \in {U64FromInt(33), <<32768, 0, 0, 0>>, <<65535, 65535, 65535, 65535>>}}
    \cup {[type |-> SaplingItem, len |-> l, payload |-> Bytes(43, 96)] :
        l \in {U64FromInt(44), U64FromInt(20), <<32768, 0, 0, 43>>}}
    \cup {[type |-> SaplingItem, len |-> U64FromInt(43), payload |-> Bytes(42, 96)]}

CraftedItems == WellFormedItems \cup MisdeclaredItems

MaxItems == 2

CraftedBodies == UNION {[1..k -> CraftedItems] : k \in 0..MaxItems}

SerialiseItem(it) ==
    WriteCompactSize(it.type, TRUE).bytes \o WriteCompactSize(it.len, TRUE).bytes \o it.payload

\* The string whose bech32 reading is (hrp, version) and whose data, regrouped
\* to bytes and un-jumbled, is the given items followed by padding(padHrp).
CraftedString(items, padHrp, hrp, version) ==
    LET raw == Concat([i \in 1..Len(items) |-> SerialiseItem(items[i])]) \o padding(padHrp)
        jumbled == IF F4JumbleLengthOk(Len(raw)) THEN F4Jumble(raw).bytes ELSE raw
    IN  [b58 |-> NoBase58,
         b32 |-> [ok |-> TRUE, hrp |-> hrp, data |-> ConvertBits(jumbled, 8, 5, TRUE).bytes,
                  version |-> version]]

InitUnified ==
    /\ prev = NoCall
    /\ \/ \E a \in Addresses, hrp \in Hrps :
            call = [fn |-> "EncodeUnified", stage |-> "call", addr |-> a, hrp |-> hrp]
       \/ \E items \in CraftedBodies, padHrp \in Hrps, version \in {"bech32m", "bech32"} :
            call = [fn |-> "DecodeUnified", stage |-> "call", items |-> items,
                    encoded |-> CraftedString(items, padHrp, <<117>>, version),
                    padHrp |-> padHrp, expectedHrp |-> <<117>>]

Encode ==
    /\ call.fn = "EncodeUnified"
    /\ call.stage = "call"
    /\ \E order \in IterationOrders(call.addr.Unknown) :
        call' = [fn |-> "EncodeUnified", stage |-> "return", addr |-> call.addr,
                 hrp |-> call.hrp, order |-> order,
                 out |-> EncodeUnified(call.addr, call.hrp, order)]
    /\ UNCHANGED prev

\* Decode what the last EncodeUnified call returned, with the same hrp.
DecodeEncoded ==
    /\ call.fn = "EncodeUnified"
    /\ call.stage = "return"
    /\ call.out.err = NoErr
    /\ call' = [fn |-> "DecodeUnified", stage |-> "return", encoded |-> call.out.str,
                expectedHrp |-> call.hrp, out |-> DecodeUnified(call.out.str, call.hrp)]
    /\ prev' = call

DecodeCrafted ==
    /\ call.fn = "DecodeUnified"
    /\ call.stage = "call"
    /\ call' = [fn |-> "DecodeUnified", stage |-> "return", items |-> call.items,
                encoded |-> call.encoded, padHrp |-> call.padHrp,
                expectedHrp |-> call.expectedHrp,
                out |-> DecodeUnified(call.encoded, call.expectedHrp)]
    /\ UNCHANGED prev

NextUnified == Encode \/ DecodeEncoded \/ DecodeCrafted

SpecUnified == InitUnified /\ [][NextUnified]_vars

\* ------------------------------------------------------------------------
\* zcashaddress: the address dispatcher

Mainnet ==
    [p2pkhLead |-> <<28, 184>>, p2shLead |-> <<28, 189>>,
     texHRP |-> <<116, 101, 120>>, saplingHRP |-> <<122, 115>>,
     unifiedHRP |-> <<117>>, unifiedR1HRP |-> <<117, 114>>]

Testnet ==
    [p2pkhLead |-> <<29, 37>>, p2shLead |-> <<28, 186>>,
     texHRP |-> <<116, 101, 120, 116, 101, 115, 116>>,
     saplingHRP |-> <<122, 116, 101, 115, 116, 115, 97, 112, 108, 105, 110, 103>>,
     unifiedHRP |-> <<117, 116, 101, 115, 116>>,
     unifiedR1HRP |-> <<117, 114, 116, 101, 115, 116>>]

Regtest ==
    [p2pkhLead |-> <<28, 37>>, p2shLead |-> <<28, 186>>,
     texHRP |-> <<116, 101, 120, 114, 101, 103, 116, 101, 115, 116>>,
     saplingHRP |-> <<122, 114, 101, 103, 116, 101, 115, 116, 115, 97, 112, 108, 105, 110, 103>>,
     unifiedHRP |-> <<117, 114, 101, 103, 116, 101, 115, 116>>,
     unifiedR1HRP |-> <<117, 114, 114, 101, 103, 116, 101, 115, 116>>]

\* base58.CheckDecode(address)
CheckDecode(address) ==
    IF address.b58.ok
    THEN [decoded |-> address.b58.payload, version |-> address.b58.version, err |-> NoErr]
    ELSE [decoded |-> <<>>, version |-> 0, err |-> "invalid format: version and/or checksum bytes missing"]

\* The characters of a bech32 string: the prefix, the separator, the data and
\* the six checksum characters.
Bech32Length(address) == Len(address.b32.hrp) + 1 + Len(address.b32.data) + 6

\* bech32.DecodeGeneric(address): strings of more than 90 characters are rejected
DecodeGeneric(address) ==
    IF address.b32.ok /\ Bech32Length(address) > 90
    THEN [hrp |-> <<>>, data |-> <<>>, version |-> "unknown", err |-> "invalid bech32 string length"]
    ELSE DecodeNoLimitWithVersion(address)

\* errors.Join: the nil errors are discarded; nil when none is left
Join(errs) ==
    LET kept == SelectSeq(errs, LAMBDA e : e # NoErr)
    IN  IF kept = <<>> THEN [err |-> NoErr, wrapped |-> <<>>]
        ELSE [err |-> "errors.Join", wrapped |-> kept]

\* The zero ZcashAddress; a pointer is the empty sequence when nil, and the
\* Unified pointer a one-element sequence holding the address otherwise.
ZeroAddress == [P2pkh |-> <<>>, P2sh |-> <<>>, Sapling |-> <<>>, Unified |-> <<>>, Tex |-> <<>>]

Return(result, err) == [kind |-> "return", result |-> result, err |-> err, wrapped |-> <<>>]

Panic(msg) == [kind |-> "panic", result |-> ZeroAddress, err |-> msg, wrapped |-> <<>>]

\* Control leaves a decoding attempt without returning from DecodeAddress
NotReturned == [kind |-> "none"]

\* DecodeAddress, the branch taken for the tex prefix under bech32m
TexBranchEarlyStore(result, conv) ==
    IF conv.err = NoErr
    THEN IF Len(conv.bytes) = 20
         THEN Return([result EXCEPT !.Tex = conv.bytes], NoErr)
         ELSE Return([result EXCEPT !.Tex = SubSeq(conv.bytes \o [i \in 1..20 |-> 0], 1, 20)],
                     "tex address data must be 20 bytes")
    ELSE Return(result, conv.err)

TexBranch(result, conv) ==
    IF conv.err = NoErr
    THEN IF Len(conv.bytes) = 20
         THEN Return([result EXCEPT !.Tex = conv.bytes], NoErr)
         ELSE Return(result, "tex address data must be 20 bytes")
    ELSE Return(result, conv.err)

\* DecodeAddress, the branch taken for the sapling prefix under bech32
SaplingBranch(result, data) ==
    IF data.err = NoErr
    THEN IF Len(data.bytes) = 43
         THEN Return([result EXCEPT !.Sapling = data.bytes], NoErr)
         ELSE Return(result, "sapling address data must be 43 bytes")
    ELSE Return(result, data.err)

\* DecodeAddress, the final return: every decoding attempt failed
FallThroughUnifiedOnly(result, base58Error, bech32Error, unifiedDecodedErr) ==
    [kind |-> "return", result |-> result, err |-> "errors.Join",
     wrapped |-> <<unifiedDecodedErr>>]

FallThrough(result, base58Error, bech32Error, unifiedDecodedErr) ==
    LET joined == Join(<<base58Error, bech32Error, unifiedDecodedErr>>)
    IN  [kind |-> "return", result |-> result, err |-> joined.err, wrapped |-> joined.wrapped]

\* DecodeAddress, the bech32 attempt
Bech32Attempt(result, b32, network) ==
    IF b32.err # NoErr THEN NotReturned
    ELSE IF b32.version = "bech32m" THEN
        IF b32.hrp = network.texHRP
        THEN TexBranch(result, ConvertBits(b32.data, 5, 8, TRUE))
        ELSE IF b32.hrp = network.unifiedR1HRP
        THEN Return(result, "unified address revision 1 decoding not yet supported")
        ELSE NotReturned
    ELSE IF b32.version = "bech32" /\ b32.hrp = network.saplingHRP
    THEN SaplingBranch(result, ConvertBits(b32.data, 5, 8, TRUE))
    ELSE NotReturned

\* DecodeAddress, the base58 attempt: indexing decoded[0] aborts when the
\* base58check payload is empty.
Base58Attempt(result, b58, network) ==
    IF b58.err # NoErr THEN NotReturned
    ELSE IF b58.version = network.p2pkhLead[1] /\ Len(b58.decoded) = 0
    THEN Panic("index out of range [0] with length 0")
    ELSE IF b58.version = network.p2pkhLead[1] /\ b58.decoded[1] = network.p2pkhLead[2]
            /\ Len(b58.decoded) = 21
    THEN Return([result EXCEPT !.P2pkh = SliceFrom(b58.decoded, 1)], NoErr)
    ELSE IF b58.version = network.p2shLead[1] /\ Len(b58.decoded) = 0
    THEN Panic("index out of range [0] with length 0")
    ELSE IF b58.version = network.p2shLead[1] /\ b58.decoded[1] = network.p2shLead[2]
            /\ Len(b58.decoded) = 21
    THEN Return([result EXCEPT !.P2sh = SliceFrom(b58.decoded, 1)], NoErr)
    ELSE NotReturned

DecodeAddress(address, network) ==
    LET result == ZeroAddress
        b58 == CheckDecode(address)
        first == Base58Attempt(result, b58, network)
        b32 == DecodeGeneric(address)
        second == Bech32Attempt(result, b32, network)
        \* unified is what DecodeUnified made of the string
        UnifiedAttempt(unified) ==
            IF unified.kind = "panic" THEN Panic(unified.err)
            ELSE IF unified.err = NoErr
            THEN Return([result EXCEPT !.Unified = <<unified.addr>>], NoErr)
            ELSE FallThrough(result, b58.err, b32.err, unified.err)
    IN  IF first.kind # "none" THEN first
        ELSE IF second.kind # "none" THEN second
        ELSE UnifiedAttempt(DecodeUnified(address, network.unifiedHRP))

\* What a convenience accessor returns: the receiver pointer (the empty
\* sequence when nil) and the error.  In the accessors d is what the call to
\* DecodeAddress did: its result and error, or an abort.
Accessed(value, err, wrapped) == [kind |-> "return", value |-> value, err |-> err, wrapped |-> wrapped]

AccessorPanic(msg) == [kind |-> "panic", value |-> <<>>, err |-> msg, wrapped |-> <<>>]

DecodeP2pkhAnyTex(address, network, allowTex) ==
    LET Select(d) ==
            IF d.kind = "panic" THEN AccessorPanic(d.err)
            ELSE IF d.err # NoErr THEN Accessed(<<>>, d.err, d.wrapped)
            ELSE IF d.result.P2pkh # <<>> THEN Accessed(d.result.P2pkh, NoErr, <<>>)
            ELSE IF d.result.Unified # <<>> THEN Accessed(d.result.Unified[1].P2pkh, NoErr, <<>>)
            ELSE IF d.result.Tex # <<>> THEN Accessed(d.result.Tex, NoErr, <<>>)
            ELSE Accessed(<<>>, NoErr, <<>>)
    IN  Select(DecodeAddress(address, network))

DecodeP2pkh(address, network, allowTex) ==
    LET Select(d) ==
            IF d.kind = "panic" THEN AccessorPanic(d.err)
            ELSE IF d.err # NoErr THEN Accessed(<<>>, d.err, d.wrapped)
            ELSE IF d.result.P2pkh # <<>> THEN Accessed(d.result.P2pkh, NoErr, <<>>)
            ELSE IF d.result.Unified # <<>> THEN Accessed(d.result.Unified[1].P2pkh, NoErr, <<>>)
            ELSE IF d.result.Tex # <<>> /\ allowTex THEN Accessed(d.result.Tex, NoErr, <<>>)
            ELSE Accessed(<<>>, NoErr, <<>>)
    IN  Select(DecodeAddress(address, network))

DecodeP2sh(address, network) ==
    LET Select(d) ==
            IF d.kind = "panic" THEN AccessorPanic(d.err)
            ELSE IF d.err # NoErr THEN Accessed(<<>>, d.err, d.wrapped)
            ELSE IF d.result.P2sh # <<>> THEN Accessed(d.result.P2sh, NoErr, <<>>)
            ELSE IF d.result.Unified # <<>> THEN Accessed(d.result.Unified[1].P2sh, NoErr, <<>>)
            ELSE Accessed(<<>>, NoErr, <<>>)
    IN  Select(DecodeAddress(address, network))

DecodeSapling(address, network) ==
    LET Select(d) ==
            IF d.kind = "panic" THEN AccessorPanic(d.err)
            ELSE IF d.err # NoErr THEN Accessed(<<>>, d.err, d.wrapped)
            ELSE IF d.result.Sapling # <<>> THEN Accessed(d.result.Sapling, NoErr, <<>>)
            ELSE IF d.result.Unified # <<>> THEN Accessed(d.result.Unified[1].Sapling, NoErr, <<>>)
            ELSE Accessed(<<>>, NoErr, <<>>)
    IN  Select(DecodeAddress(address, network))

DecodeOrchard(address, network) ==
    LET Select(d) ==
            IF d.kind = "panic" THEN AccessorPanic(d.err)
            ELSE IF d.err # NoErr THEN Accessed(<<>>, d.err, d.wrapped)
            ELSE IF d.result.Unified # <<>> THEN Accessed(d.result.Unified[1].Orchard, NoErr, <<>>)
            ELSE Accessed(<<>>, NoErr, <<>>)
    IN  Select(DecodeAddress(address, network))

\* ------------------------------------------------------------------------
\* The dispatcher's calls

Networks == {Mainnet, Testnet, Regtest}

Base58Readings ==
    {NoBase58}
    \cup {[ok |-> TRUE, version |-> v, payload |-> p] :
            v \in {0, 28, 29},
            p \in {<<>>, <<184>> \o Bytes(20, 16), <<189>> \o Bytes(20, 48),
                   <<184>> \o Bytes(19, 16), <<37>> \o Bytes(20, 16), <<186>> \o Bytes(20, 48)}}

UnifiedData(items) == CraftedString(items, <<117>>, <<117>>, "bech32m").b32.data

\* The item of typecode 4 with the given payload
UnknownItem(payload) ==
    [type |-> <<0, 0, 0, 4>>, len |-> U64FromInt(Len(payload)), payload |-> payload]

SaplingOnly == <<[type |-> SaplingItem, len |-> U64FromInt(43), payload |-> Bytes(43, 96)]>>

P2pkhThenUnknown ==
    <<[type |-> P2PKHItem, len |-> U64FromInt(20), payload |-> Bytes(20, 16)], UnknownItem(Bytes(8, 200))>>

UnknownThenP2pkh ==
    <<UnknownItem(Bytes(8, 200)), [type |-> P2PKHItem, len |-> U64FromInt(20), payload |-> Bytes(20, 16)]>>

P2shThenOrchard ==
    <<[type |-> P2SHItem, len |-> U64FromInt(20), payload |-> Bytes(20, 48)],
      [type |-> OrchardItem, len |-> U64FromInt(43), payload |-> Bytes(43, 160)]>>

\* 68 symbols, which regroup with padding to 43 bytes
SaplingSymbols == [i \in 1..68 |-> (i * 7) % 32]

Bech32Data ==
    {ConvertBits(Bytes(20, 16), 8, 5, TRUE).bytes, ConvertBits(Bytes(43, 96), 8, 5, TRUE).bytes,
     ConvertBits(Bytes(19, 16), 8, 5, TRUE).bytes, SaplingSymbols,
     UnifiedData(SaplingOnly), UnifiedData(P2pkhThenUnknown), UnifiedData(UnknownThenP2pkh),
     UnifiedData(P2shThenOrchard)}

Bech32Readings ==
    {NoBech32}
    \cup {[ok |-> TRUE, hrp |-> h, data |-> d, version |-> v] :
            h \in {Mainnet.texHRP, Mainnet.saplingHRP, Mainnet.unifiedHRP, Mainnet.unifiedR1HRP,
                   Testnet.unifiedHRP, <<98, 99>>},
            d \in Bech32Data, v \in {"bech32", "bech32m"}}

AddressStrings == [b58 : Base58Readings, b32 : Bech32Readings]

InitAddress ==
    /\ prev = NoCall
    /\ \E a \in AddressStrings, net \in Networks :
        call = [fn |-> "DecodeAddress", stage |-> "call", address |-> a, network |-> net]

Decode ==
    /\ call.fn = "DecodeAddress"
    /\ call.stage = "call"
    /\ call' = [fn |-> "DecodeAddress", stage |-> "return", address |-> call.address,
                network |-> call.network, out |-> DecodeAddress(call.address, call.network)]
    /\ UNCHANGED prev

\* The last DecodeAddress call has returned or aborted
Decoded == call.fn = "DecodeAddress" /\ call.stage = "return"

\* The convenience accessors, each called with the string and network of the
\* DecodeAddress call before it.
CallDecodeP2pkh ==
    /\ Decoded
    /\ \E allowTex \in BOOLEAN :
        call' = [fn |-> "DecodeP2pkh", stage |-> "return", address |-> call.address,
                 network |-> call.network, allowTex |-> allowTex,
                 out |-> DecodeP2pkh(call.address, call.network, allowTex)]
    /\ prev' = call

CallDecodeP2sh ==
    /\ Decoded
    /\ call' = [fn |-> "DecodeP2sh", stage |-> "return", address |-> call.address,
                network |-> call.network, allowTex |-> FALSE,
                out |-> DecodeP2sh(call.address, call.network)]
    /\ prev' = call

CallDecodeSapling ==
    /\ Decoded
    /\ call' = [fn |-> "DecodeSapling", stage |-> "return", address |-> call.address,
                network |-> call.network, allowTex |-> FALSE,
                out |-> DecodeSapling(call.address, call.network)]
    /\ prev' = call

CallDecodeOrchard ==
    /\ Decoded
    /\ call' = [fn |-> "DecodeOrchard", stage |-> "return", address |-> call.address,
                network |-> call.network, allowTex |-> FALSE,
                out |-> DecodeOrchard(call.address, call.network)]
    /\ prev' = call

NextAddress ==
    \/ Decode
    \/ CallDecodeP2pkh
    \/ CallDecodeP2sh
    \/ CallDecodeSapling
    \/ CallDecodeOrchard

SpecAddress == InitAddress /\ [][NextAddress]_vars

\* ------------------------------------------------------------------------
\* Claims about the Unified Address codec

EncodeReturned == call.fn = "EncodeUnified" /\ call.stage = "return"

DecodeReturned == call.fn = "DecodeUnified" /\ call.stage = "return"

Conflicting(a) == a.P2pkh # <<>> /\ a.P2sh # <<>>

\* The number of bytes EncodeUnified hands to F4Jumble for address a and prefix hrp
SerialisedLength(a, hrp) ==
    LET items == EncodedItems(a, CHOOSE o \in IterationOrders(a.Unknown) : TRUE)
    IN  Len(Concat([i \in 1..Len(items) |-> items[i].tlv.bytes])) + Len(padding(hrp))

\* C1: for every address a without both P2pkh and P2sh and every hrp,
\* EncodeUnified(a, hrp) succeeds and DecodeUnified of its result with the
\* same hrp returns an address equal to a, whatever order the Unknown map is
\* iterated in.  Stated here for the inputs that leave the codec no other
\* ground to differ on: a prefix of at most 16 bytes, no empty Unknown
\* payload, at least 48 serialised bytes.
C1_RoundTrip ==
    /\ (EncodeReturned /\ ~Conflicting(call.addr) /\ Len(call.hrp) <= 16
            /\ SerialisedLength(call.addr, call.hrp) >= 48) =>
          call.out.err = NoErr
    /\ (DecodeReturned /\ prev.fn = "EncodeUnified" /\ Len(prev.hrp) <= 16
            /\ (\A k \in DOMAIN prev.addr.Unknown : prev.addr.Unknown[k] # <<>>)) =>
          (call.out.kind = "ok" /\ call.out.addr = prev.addr)

StrictlyAscending(ts) == \A i \in 1..(Len(ts) - 1) : U64Less(ts[i], ts[i + 1])

\* C2: EncodeUnified emits P2pkh, P2sh, Sapling, Orchard (each if present) and
\* then the unknown items sorted ascending by typecode, so the typecodes of
\* the items it serialises are strictly ascending for every input address.
C2_EmissionOrder ==
    (EncodeReturned /\ call.out.err = NoErr) => StrictlyAscending(call.out.emitted)

\* C3: every address DecodeUnified returns without error has at most one of
\* P2pkh and P2sh set.
C3_DecodedTransparentExclusive ==
    (DecodeReturned /\ call.out.kind = "ok") => ~Conflicting(call.out.addr)

\* A hand-made input that reaches the receiver loop of DecodeUnified: bech32m,
\* the expected prefix in the string and in the padding, enough bytes.
ReachesItems ==
    /\ DecodeReturned
    /\ prev.fn = "none"
    /\ call.encoded.b32.version = "bech32m"
    /\ call.padHrp = call.expectedHrp
    /\ Len(Concat([i \in 1..Len(call.items) |-> SerialiseItem(call.items[i])])) + 16 >= 48

\* The first item whose typecode is not strictly greater than its predecessor's
FirstOutOfOrder(items) ==
    LET bad == {i \in 2..Len(items) : ~U64Less(items[i - 1].type, items[i].type)}
    IN  IF bad = {} THEN 0 ELSE CHOOSE i \in bad : \A j \in bad : i <= j

\* C4: DecodeUnified rejects every body in which an item's typecode is not
\* strictly greater than that of the item before it, with the duplicate error
\* when the typecode was already seen and the order error otherwise, whatever
\* the preceding typecode (0xFFFFFFFF included).
C4_OrderEnforced ==
    (ReachesItems /\ (\A i \in 1..Len(call.items) : call.items[i] \in WellFormedItems)
        /\ FirstOutOfOrder(call.items) # 0) =>
        LET i == FirstOutOfOrder(call.items)
            t == call.items[i].type
        IN  /\ call.out.kind = "error"
            /\ call.out.err =
                 IF \E j \in 1..(i - 1) : call.items[j].type = t
                 THEN "duplicate " \o getItemName(t) \o " item detected"
                 ELSE "items out of order"

\* C5: when an item of unknown typecode, or of known typecode with its correct
\* declared length, declares more payload bytes than the body has left,
\* DecodeUnified returns the truncation error with a nil result and does not
\* abort, for every declared length up to 2^64-1.  Stated for the last item of
\* a body whose earlier items are well formed and ascending.
C5_TruncationIsAnError ==
    (ReachesItems /\ Len(call.items) > 0 /\ FirstOutOfOrder(call.items) = 0
        /\ (\A i \in 1..(Len(call.items) - 1) : call.items[i] \in WellFormedItems)
        /\ LET last == call.items[Len(call.items)]
           IN  /\ U64Less(U64FromInt(Len(last.payload)), last.len)
               /\ (last.type \in KnownItems => last.len = U64FromInt(getExpectedLength(last.type)))) =>
        /\ call.out.kind = "error"
        /\ call.out.err = "insufficient data for receiver with typecode"
        /\ call.out.addr = NilAddress

\* The number of bytes the data of the hand-made string regroups to
CraftedLength ==
    Len(Concat([i \in 1..Len(call.items) |-> SerialiseItem(call.items[i])]))
    + Len(padding(call.padHrp))

LengthError == "invalid encoded data length"

\* C11: for every input whose byte payload is shorter than 48 bytes
\* DecodeUnified fails with the length error, before the inverse diffusion
\* transform is applied; inputs of 48 bytes or more are never rejected by the
\* length check.  Stated for bech32m strings that carry the expected prefix.
C11_MinimumLength ==
    (DecodeReturned /\ prev.fn = "none" /\ call.encoded.b32.version = "bech32m") =>
        /\ CraftedLength < 48 => (call.out.kind = "error" /\ call.out.err = LengthError)
        /\ CraftedLength >= 48 => call.out.err # LengthError

ConflictError == "both P2PKH and P2SH items found in unified address"

\* C12: EncodeUnified fails with the conflict error, returning the empty
\* string, exactly when both P2pkh and P2sh are non-nil, whatever the other
\* fields and the hrp are; in that case no item is encoded; and no call
\* changes the address it was given.
C12_ConflictIffBothTransparent ==
    /\ [](EncodeReturned =>
            /\ call.out.err = ConflictError <=> Conflicting(call.addr)
            /\ Conflicting(call.addr) =>
                (call.out.str = EmptyString /\ call.out.emitted = <<>>))
    /\ [][(call.fn = "EncodeUnified" /\ call.stage = "call") =>
            (call'.fn = "EncodeUnified" /\ call'.addr = call.addr)]_vars

\* A conflicting address with shielded and unknown receivers and the long
\* prefix was refused.
C12_Witness ==
    /\ EncodeReturned
    /\ Conflicting(call.addr)
    /\ call.addr.Sapling # <<>>
    /\ \E t \in DOMAIN call.addr.Unknown : call.addr.Unknown[t] # <<>>
    /\ Len(call.hrp) > 1
    /\ call.out.err = ConflictError
    /\ call.out.str = EmptyString

\* ------------------------------------------------------------------------
\* Claims about the address dispatcher

AddressReturned ==
    call.fn = "DecodeAddress" /\ call.stage = "return" /\ call.out.kind = "return"

SetFields(z) == {f \in {"P2pkh", "P2sh", "Sapling", "Unified", "Tex"} : z[f] # <<>>}

\* C6: when DecodeAddress returns no error exactly one of the fields P2pkh,
\* P2sh, Sapling, Unified, Tex of the returned ZcashAddress is non-nil; when
\* it returns an error all five are nil.
C6_ExactlyOneField ==
    AddressReturned =>
        /\ call.out.err = NoErr => Cardinality(SetFields(call.out.result)) = 1
        /\ call.out.err # NoErr => SetFields(call.out.result) = {}

C6_Witness ==
    /\ AddressReturned
    /\ call.out.err = NoErr
    /\ call.address.b32.data = UnifiedData(P2pkhThenUnknown)
    /\ SetFields(call.out.result) = {"Unified"}
    /\ call.out.result.Unified[1].P2pkh = Bytes(20, 16)

\* DecodeAddress returned from its last statement, errors.Join
FellThrough == AddressReturned /\ call.out.err = "errors.Join"

\* The string has at most one successful text reading
OneReading(address) == ~(address.b58.ok /\ address.b32.ok)

\* C7 as claimed: whenever DecodeAddress reaches its final fall-through, the
\* error it returns references three underlying failures, one per attempted
\* format, also when the base-58 or base-32 decode itself succeeded and only
\* its prefix or version did not match the network.
C7_ThreeFailures ==
    (FellThrough /\ OneReading(call.address)) => Len(call.out.wrapped) = 3

\* C7 as amended: at the final fall-through the error references the failure
\* of each attempt whose decoder returned an error, in order: the base-58
\* error if base58.CheckDecode failed, the base-32 error if
\* bech32.DecodeGeneric failed, and always the Unified Address error; an
\* attempt that decoded but did not match the network contributes nothing.
C7_JoinedFailures ==
    FellThrough =>
        LET a == call.address
            base58Failed == ~a.b58.ok
            bech32Failed == ~a.b32.ok \/ Bech32Length(a) > 90
            w == call.out.wrapped
        IN  /\ Len(w) = 1 + (IF base58Failed THEN 1 ELSE 0) + (IF bech32Failed THEN 1 ELSE 0)
            /\ \A i \in 1..Len(w) : w[i] # NoErr
            /\ base58Failed => w[1] = CheckDecode(a).err
            /\ bech32Failed => w[Len(w) - 1] = DecodeGeneric(a).err
            /\ w[Len(w)] = DecodeUnified(a, call.network.unifiedHRP).err
            /\ call.out.result = ZeroAddress

C7_Witness ==
    /\ FellThrough
    /\ call.address.b58.ok
    /\ ~call.address.b32.ok
    /\ call.out.wrapped =
          <<"invalid bech32 string", "unified addresses must be encoded with bech32m">>

Accessors == {"DecodeP2pkh", "DecodeP2sh", "DecodeSapling", "DecodeOrchard"}

\* An accessor has returned after a DecodeAddress call on the same string
\* and network that returned too
AccessorReturned ==
    /\ call.fn \in Accessors
    /\ call.stage = "return"
    /\ call.out.kind = "return"
    /\ prev.fn = "DecodeAddress"
    /\ prev.out.kind = "return"
    /\ prev.address = call.address
    /\ prev.network = call.network

\* The field of a decoded address an accessor asks for directly; DecodeOrchard
\* has none
DirectField(fn, z) ==
    IF fn = "DecodeP2pkh" THEN z.P2pkh
    ELSE IF fn = "DecodeP2sh" THEN z.P2sh
    ELSE IF fn = "DecodeSapling" THEN z.Sapling
    ELSE <<>>

\* The field of a Unified Address an accessor asks for
UnifiedField(fn, u) ==
    IF fn = "DecodeP2pkh" THEN u.P2pkh
    ELSE IF fn = "DecodeP2sh" THEN u.P2sh
    ELSE IF fn = "DecodeSapling" THEN u.Sapling
    ELSE u.Orchard

\* The requested receiver of a decoded address, nil when it has none
Requested(fn, z) ==
    IF DirectField(fn, z) # <<>> THEN DirectField(fn, z)
    ELSE IF z.Unified # <<>> THEN UnifiedField(fn, z.Unified[1])
    ELSE <<>>

\* C13: when DecodeAddress fails, each accessor returns nil and that same
\* error; otherwise it returns, with a nil error, the requested receiver of
\* the decoded address or of its Unified Address, nil when there is none.
\* For a TEX address DecodeP2pkh returns the 20 bytes exactly when allowTex
\* is set, and DecodeOrchard returns a value only for Unified Addresses.
C13_Accessors ==
    AccessorReturned =>
        LET z == prev.out.result
        IN  IF prev.out.err # NoErr
            THEN /\ call.out.value = <<>>
                 /\ call.out.err = prev.out.err
                 /\ call.out.wrapped = prev.out.wrapped
            ELSE /\ call.out.err = NoErr
                 /\ z.Tex = <<>> => call.out.value = Requested(call.fn, z)
                 /\ z.Tex # <<>> =>
                        /\ call.fn = "DecodeP2pkh" =>
                            /\ call.out.value = z.Tex <=> call.allowTex
                            /\ ~call.allowTex => call.out.value = <<>>
                        /\ call.fn # "DecodeP2pkh" => call.out.value = <<>>
                 /\ (call.fn = "DecodeOrchard" /\ call.out.value # <<>>) => z.Unified # <<>>

\* DecodeP2pkh, refused the TEX address it was given without allowTex.
C13_Witness ==
    /\ AccessorReturned
    /\ call.fn = "DecodeP2pkh"
    /\ ~call.allowTex
    /\ prev.out.err = NoErr
    /\ Len(prev.out.result.Tex) = 20
    /\ call.out.value = <<>>
    /\ call.out.err = NoErr

\* ------------------------------------------------------------------------
\* Claims about the varint codec

IsByte(x) == x \in 0..255

\* n > 0x2000000, on the limbs (0x2000000 = 512 * 2^16)
AboveCeiling(n) == n[1] > 0 \/ n[2] > 0 \/ n[3] > 512 \/ (n[3] = 512 /\ n[4] > 0)

WriteReturned == call.fn = "WriteCompactSize" /\ call.stage = "return"

ParseReturned == call.fn = "ParseCompactSize" /\ call.stage = "return"

\* C8: WriteCompactSize(n, true) returns the single byte n when n < 253, 0xFD
\* and n as 2 little-endian bytes when 253 <= n <= 65535, 0xFE and n as 4
\* little-endian bytes when 65536 <= n <= 2^32-1, 0xFF and n as 8 little-endian
\* bytes when n >= 2^32 (300 gives FD 2C 01); WriteCompactSize(n, false)
\* returns the same bytes for every n <= 0x2000000.
C8_WriteCompactSizeEncoding ==
    (WriteReturned /\ (call.allow \/ ~AboveCeiling(call.n))) =>
        LET n == call.n
            b == call.out.bytes
        IN  /\ call.out.err = NoErr
            /\ \A i \in 1..Len(b) : IsByte(b[i])
            /\ (n[1] = 0 /\ n[2] = 0 /\ n[3] = 0 /\ n[4] < 253) => b = <<n[4]>>
            /\ (n[1] = 0 /\ n[2] = 0 /\ n[3] = 0 /\ n[4] >= 253) =>
                  /\ Len(b) = 3
                  /\ b[1] = 253
                  /\ b[2] + 256 * b[3] = n[4]
            /\ (n[1] = 0 /\ n[2] = 0 /\ n[3] > 0) =>
                  /\ Len(b) = 5
                  /\ b[1] = 254
                  /\ b[2] + 256 * b[3] = n[4]
                  /\ b[4] + 256 * b[5] = n[3]
            /\ (n[1] > 0 \/ n[2] > 0) =>
                  /\ Len(b) = 9
                  /\ b[1] = 255
                  /\ b[2] + 256 * b[3] = n[4]
                  /\ b[4] + 256 * b[5] = n[3]
                  /\ b[6] + 256 * b[7] = n[2]
                  /\ b[8] + 256 * b[9] = n[1]
            /\ n = <<0, 0, 0, 300>> => b = <<253, 44, 1>>

C8_Witness ==
    /\ WriteReturned
    /\ ~call.allow
    /\ call.n = <<0, 0, 1, 300>>
    /\ call.out.bytes = <<254, 44, 1, 1, 0>>

\* C9: parsing what WriteCompactSize(n, allow) returned, followed by any
\* trailing bytes t, returns n, exactly t as the remainder and no error, for
\* every n when the parse allows out-of-range values and for every
\* n <= 0x2000000 when it does not.
C9_VarintRoundTrip ==
    (ParseReturned /\ prev.fn = "WriteCompactSize"
        /\ (call.allow \/ ~AboveCeiling(prev.n))) =>
        call.out = [n |-> prev.n, rest |-> call.trailing, err |-> NoErr]

C9_Witness ==
    /\ ParseReturned
    /\ prev.fn = "WriteCompactSize"
    /\ prev.n = <<65535, 65535, 65535, 65535>>
    /\ call.trailing = <<253>>
    /\ call.out.n = prev.n
    /\ call.out.rest = <<253>>

RangeError == "number exceeds maximum compact size"

\* C10: with allowOutOfRange false, WriteCompactSize fails exactly when
\* n > 0x2000000 and ParseCompactSize fails with the same error exactly when
\* the well-formed encoding it reads carries a value > 0x2000000; with
\* allowOutOfRange true neither fails for range reasons; a failure returns no
\* bytes, the value 0 and no remainder.
C10_RangeCeiling ==
    /\ WriteReturned =>
          /\ (call.out.err # NoErr) <=> (~call.allow /\ AboveCeiling(call.n))
          /\ call.out.err # NoErr => (call.out.err = RangeError /\ call.out.bytes = <<>>)
    /\ (ParseReturned /\ prev.fn = "WriteCompactSize") =>
          /\ (call.out.err # NoErr) <=> (~call.allow /\ AboveCeiling(prev.n))
          /\ call.out.err # NoErr =>
                call.out = [n |-> <<0, 0, 0, 0>>, rest |-> <<>>, err |-> RangeError]
    /\ (ParseReturned /\ prev.fn = "none" /\ call.raw.wellFormed) =>
          /\ (call.out.err # NoErr) <=> (~call.allow /\ AboveCeiling(call.raw.value))
          /\ call.out.err = NoErr => call.out.n = call.raw.value
          /\ call.out.err # NoErr =>
                call.out = [n |-> <<0, 0, 0, 0>>, rest |-> <<>>, err |-> RangeError]

C10_Witness ==
    /\ ParseReturned
    /\ prev.fn = "none"
    /\ call.rest = <<254, 1, 0, 0, 2>>
    /\ ~call.allow
    /\ call.out.err = RangeError

====
